---- MODULE Spec2Model ----
(***************************************************************************)
(* Model of the store-hours table (StoreTable, both variants found in the  *)
(* source) and of the offline-caching service worker.                      *)
(*                                                                         *)
(* Strings that the code inspects character by character are sequences:    *)
(* a store name is a sequence of one-character strings, an HHmm time       *)
(* string is a sequence of four digits.  A JavaScript value that may be    *)
(* `undefined` is a record with a field `undef`; a computation that may    *)
(* throw yields a record with a field `thrown`.                            *)
(***************************************************************************)
EXTENDS Integers, Sequences, FiniteSets, TLC

VARIABLES
    variant,        \* 1: StoreTable with favorites, 2: StoreTable without
    storeData,      \* bloomfield.stores
    clock,          \* wall clock: [day, minute]
    search,         \* useState("")
    dayFilter,      \* useState("Current Day")
    openFilter,     \* useState("All")
    onlyFavs,       \* useState("All")
    sorting,        \* useState<SortingState>([])
    favorites,      \* useState(JSON.parse(localStorage.getItem("favorites") ?? "{}"))
    localStorage,   \* browser storage: key -> string
    filteredMemo,   \* useMemo cell of filteredData: [deps, value]
    computedAt,     \* the clock when filteredMemo.value was computed
    columnsMemo,    \* useMemo cell of columns: [deps, value], value = the dayFilter
                    \* its cell and sortingFn closures captured
    worker,         \* service worker: "parsed", "activated" or "redundant"
    cache,          \* service worker: the cache "my-cache", url -> response
    server,         \* the version of the site the network serves now
    netLog,         \* the requests sent to the network so far
    responded       \* service worker: the last [request, response] of respondWith

uiVars == <<variant, storeData, clock, search, dayFilter, openFilter, onlyFavs,
            sorting, favorites, localStorage, filteredMemo, computedAt, columnsMemo>>
swVars == <<worker, cache, server, netLog, responded>>
vars == <<variant, storeData, clock, search, dayFilter, openFilter, onlyFavs,
          sorting, favorites, localStorage, filteredMemo, computedAt, columnsMemo,
          worker, cache, server, netLog, responded>>

(***************************************************************************)
(* Bounds                                                                  *)
(***************************************************************************)
MaxDay == 2          \* the clock runs over days 1..MaxDay
MaxNetLog == 2       \* network requests recorded by the service worker model
MaxVersion == 1      \* deployments of the site after the first

(***************************************************************************)
(* Times and days                                                          *)
(***************************************************************************)
\* dayjs().format("dddd") of day number d (day 1 is a Monday)
WeekDays == <<"Monday", "Tuesday", "Wednesday", "Thursday", "Friday", "Saturday", "Sunday">>

\* minutes of the day at which the clock is observed
ClockMinutes == {9 * 60, 17 * 60, 17 * 60 + 1}

getCurrentDay(clk) == WeekDays[((clk.day - 1) % 7) + 1]

getCurrentTime(clk) ==
    LET h == clk.minute \div 60
        m == clk.minute % 60
    IN  <<h \div 10, h % 10, m \div 10, m % 10>>

Undefined == [undef |-> TRUE]
Str(s) == [undef |-> FALSE, str |-> s]

\* parseInt(time.substring(a, b), 10) on a string of digits
parseInt2(s, a) == 10 * s[a] + s[a + 1]

\* new Date(y, m, d, hours, minutes) as minutes since today's local midnight;
\* time.substring throws a TypeError when time is undefined
parseTimeToJSDate(time) ==
    IF time.undef
    THEN [thrown |-> TRUE]
    ELSE [thrown |-> FALSE,
          t |-> parseInt2(time.str, 1) * 60 + parseInt2(time.str, 3)]

\* const { open, close } = store.hours[today] || {}
HoursEntry(store, today) ==
    IF today \in DOMAIN store.hours
    THEN [open |-> Str(store.hours[today].open), close |-> Str(store.hours[today].close)]
    ELSE [open |-> Undefined, close |-> Undefined]

\* dayFilter === "Current Day" ? getCurrentDay() : dayFilter
EffectiveDay(day, clk) == IF day = "Current Day" THEN getCurrentDay(clk) ELSE day

(***************************************************************************)
(* The fixture                                                             *)
(***************************************************************************)
T0900 == <<0, 9, 0, 0>>
T1000 == <<1, 0, 0, 0>>
T1200 == <<1, 2, 0, 0>>
T1700 == <<1, 7, 0, 0>>
T1800 == <<1, 8, 0, 0>>

Hrs(o, c) == [open |-> o, close |-> c]

\* every store has an entry for every day
FixtureFull ==
    << [name |-> <<"A", "b">>,
        hours |-> [d \in {"Monday", "Tuesday"} |->
                     IF d = "Monday" THEN Hrs(T0900, T1700) ELSE Hrs(T0900, T1200)]],
       [name |-> <<"b">>,
        hours |-> [d \in {"Monday", "Tuesday"} |->
                     IF d = "Monday" THEN Hrs(T1000, T1200) ELSE Hrs(T1000, T1800)]] >>

\* the second store has no entry for Tuesday
FixtureGap ==
    << [name |-> <<"A", "b">>,
        hours |-> [d \in {"Monday", "Tuesday"} |-> Hrs(T0900, T1700)]],
       [name |-> <<"b">>,
        hours |-> [d \in {"Monday"} |-> Hrs(T0900, T1700)]] >>

Fixtures == {FixtureFull, FixtureGap}

StoreNames == {storeData[i].name : i \in 1..Len(storeData)}

(***************************************************************************)
(* Strings                                                                 *)
(***************************************************************************)
\* the texts typed into the search box
SearchTexts == {<<>>, <<"B">>, <<"a", "B">>}

LowerChar(c) == CASE c = "A" -> "a" [] c = "B" -> "b" [] OTHER -> c

toLowerCase(s) == [i \in 1..Len(s) |-> LowerChar(s[i])]

\* String.prototype.includes
includes(hay, needle) ==
    \E i \in 0..(Len(hay) - Len(needle)) : SubSeq(hay, i + 1, i + Len(needle)) = needle

(***************************************************************************)
(* The favorites object and JSON                                           *)
(* An object is the sequence of its [k, v] entries in insertion order.     *)
(***************************************************************************)
HasKey(obj, k) == \E i \in 1..Len(obj) : obj[i].k = k

\* obj[k]
Get(obj, k) ==
    IF HasKey(obj, k)
    THEN [undef |-> FALSE, val |-> obj[CHOOSE i \in 1..Len(obj) : obj[i].k = k].v]
    ELSE [undef |-> TRUE, val |-> FALSE]

\* truthiness of obj[k]
Truthy(x) == ~x.undef /\ x.val

\* { ...obj, [k]: v }
SpreadSet(obj, k, v) ==
    IF HasKey(obj, k)
    THEN [i \in 1..Len(obj) |-> IF obj[i].k = k THEN [k |-> k, v |-> v] ELSE obj[i]]
    ELSE Append(obj, [k |-> k, v |-> v])

RECURSIVE StringifyEntries(_, _)
StringifyEntries(obj, i) ==
    IF i > Len(obj) THEN <<>>
    ELSE (IF i > 1 THEN <<",">> ELSE <<>>)
         \o <<"\"">> \o obj[i].k \o <<"\"", ":">>
         \o <<(IF obj[i].v THEN "true" ELSE "false")>>
         \o StringifyEntries(obj, i + 1)

\* JSON.stringify of a flat object of booleans, as a sequence of characters and literals
JSONstringify(obj) == <<"{">> \o StringifyEntries(obj, 1) \o <<"}">>

\* position of the closing quote of the key that starts at position i
RECURSIVE KeyEnd(_, _)
KeyEnd(s, i) == IF s[i] = "\"" THEN i ELSE KeyEnd(s, i + 1)

\* parse the members that start at position i (s[i] is the opening quote of a key, or "}")
RECURSIVE ParseMembers(_, _, _)
ParseMembers(s, i, acc) ==
    IF s[i] = "}" THEN acc
    ELSE IF s[i] = "," THEN ParseMembers(s, i + 1, acc)
    ELSE LET e == KeyEnd(s, i + 1)
             key == SubSeq(s, i + 1, e - 1)
             val == (s[e + 2] = "true")
         IN  ParseMembers(s, e + 3, SpreadSet(acc, key, val))

\* JSON.parse of the output of JSONstringify
JSONparse(s) == ParseMembers(s, 2, <<>>)

\* localStorage.getItem(key) ?? dflt
getItemOr(storage, key, dflt) == IF key \in DOMAIN storage THEN storage[key] ELSE dflt

\* localStorage.setItem(key, value)
setItem(storage, key, value) ==
    [k \in DOMAIN storage \cup {key} |-> IF k = key THEN value ELSE storage[k]]

NoStorage == [k \in {} |-> <<>>]

\* the initial value of the favorites state
InitialFavorites(storage) == JSONparse(getItemOr(storage, "favorites", <<"{", "}">>))

(***************************************************************************)
(* filteredData                                                            *)
(***************************************************************************)
\* !(parsedNow >= parsedOpen && parsedNow <= parsedClose)
OutsideHours(parsedNow, parsedOpen, parsedClose) ==
    ~(parsedNow >= parsedOpen /\ parsedNow <= parsedClose)

\* the callback of storeData.filter: [thrown, keep]
KeepStore(v, store, s, d, o, f, of, clk) ==
    IF v = 1 /\ of = "Favorites" /\ ~Truthy(Get(f, store.name))
    THEN [thrown |-> FALSE, keep |-> FALSE]
    ELSE IF s # <<>> /\ ~includes(toLowerCase(store.name), toLowerCase(s))
    THEN [thrown |-> FALSE, keep |-> FALSE]
    ELSE IF o = "Open Now"
    THEN LET today == EffectiveDay(d, clk)
             now == getCurrentTime(clk)
             entry == HoursEntry(store, today)
             parsedOpen == parseTimeToJSDate(entry.open)
             parsedClose == parseTimeToJSDate(entry.close)
             parsedNow == parseTimeToJSDate(Str(now))
         IN  IF parsedOpen.thrown \/ parsedClose.thrown
             THEN [thrown |-> TRUE, keep |-> FALSE]
             ELSE IF OutsideHours(parsedNow.t, parsedOpen.t, parsedClose.t)
             THEN [thrown |-> FALSE, keep |-> FALSE]
             ELSE [thrown |-> FALSE, keep |-> TRUE]
    ELSE [thrown |-> FALSE, keep |-> TRUE]

\* the callback of .map: { ...store, favorite: favorites[store.name] || false };
\* the variant without favorites hands the stores on as they are
Row(v, store, f) ==
    IF v = 1
    THEN [name |-> store.name, hours |-> store.hours,
          favorite |-> Truthy(Get(f, store.name))]
    ELSE store

RECURSIVE FilterFrom(_, _, _, _, _, _, _, _, _, _)
FilterFrom(v, data, i, acc, s, d, o, f, of, clk) ==
    IF i > Len(data) THEN [thrown |-> FALSE, rows |-> acc]
    ELSE LET r == KeepStore(v, data[i], s, d, o, f, of, clk)
         IN  IF r.thrown THEN [thrown |-> TRUE, rows |-> <<>>]
             ELSE FilterFrom(v, data, i + 1,
                             IF r.keep THEN Append(acc, Row(v, data[i], f)) ELSE acc,
                             s, d, o, f, of, clk)

\* the function memoised as filteredData: [thrown, rows]
filteredDataFn(v, data, s, d, o, f, of, clk) ==
    FilterFrom(v, data, 1, <<>>, s, d, o, f, of, clk)

\* mutant of FilteredDeps: onlyFavs left out of the dependency array
FilteredDepsWithoutOnlyFavs(v, s, d, o, f, of) ==
    IF v = 1 THEN <<s, d, o, f>> ELSE <<s, d, o>>

\* the dependency array of the filteredData memo
FilteredDeps(v, s, d, o, f, of) ==
    IF v = 1 THEN <<s, d, o, f, of>> ELSE <<s, d, o>>

\* mutant of useMemo: the first value is kept for ever
useMemoNeverRecomputes(memo, deps, computed) == memo

\* React.useMemo: recompute if and only if a dependency changed
useMemo(memo, deps, computed) ==
    IF memo.deps = deps THEN memo
    ELSE [deps |-> deps, value |-> computed]

\* the columns: memoised on [favorites] in the variant with favorites,
\* rebuilt on every render in the other
ColumnsRender(v, memo, f, d) ==
    IF v = 1 THEN useMemo(memo, <<f>>, d)
    ELSE [deps |-> <<>>, value |-> d]

(***************************************************************************)
(* The Hours column                                                        *)
(***************************************************************************)
Shown(x) == IF x.undef THEN <<"undefined">> ELSE x.str

\* cell: `${open} - ${close}`, with the dayFilter the closure holds
HoursCell(row, capturedDay, clk) ==
    LET entry == HoursEntry(row, EffectiveDay(capturedDay, clk))
    IN  Shown(entry.open) \o <<" - ">> \o Shown(entry.close)

\* sortingFn: aClosing.getTime() - bClosing.getTime(), with the dayFilter the closure holds
sortingFn(a, b, capturedDay, clk) ==
    LET today == EffectiveDay(capturedDay, clk)
        aClosing == parseTimeToJSDate(HoursEntry(a, today).close)
        bClosing == parseTimeToJSDate(HoursEntry(b, today).close)
    IN  IF aClosing.thrown \/ bClosing.thrown
        THEN [thrown |-> TRUE, n |-> 0]
        ELSE [thrown |-> FALSE, n |-> aClosing.t - bClosing.t]

(***************************************************************************)
(* The component                                                           *)
(***************************************************************************)
Rows == filteredMemo.value.rows

\* the component is on screen: no render has thrown since it was mounted
Mounted == ~filteredMemo.value.thrown

\* the options of the day select
DayOptions == {"Current Day"} \cup DOMAIN storeData[1].hours

SortingStates == {<<>>, <<[id |-> "hours", desc |-> FALSE]>>}

ColumnIds == {"favorites", "name", "hours"}

\* first render of a freshly mounted component
MountMemos(v, data, f, clk) ==
    /\ filteredMemo' =
         [deps |-> FilteredDeps(v, <<>>, "Current Day", "All", f, "All"),
          value |-> filteredDataFn(v, data, <<>>, "Current Day", "All", f, "All", clk)]
    /\ computedAt' = clk
    /\ columnsMemo' = [deps |-> IF v = 1 THEN <<f>> ELSE <<>>, value |-> "Current Day"]

\* a re-render with the new state values; a throw in the filter leaves the render
\* unfinished and unmounts the component
Render(s, d, o, f, of) ==
    LET fm == useMemo(filteredMemo, FilteredDeps(variant, s, d, o, f, of),
                      filteredDataFn(variant, storeData, s, d, o, f, of, clock))
    IN  /\ filteredMemo' = fm
        /\ computedAt' = IF fm = filteredMemo THEN computedAt ELSE clock
        /\ columnsMemo' = IF fm.value.thrown THEN columnsMemo
                          ELSE ColumnsRender(variant, columnsMemo, f, d)

\* mutant of UpdatedFavorites: the spread of the old map is forgotten
UpdatedFavoritesWithoutSpread(f, storeName) ==
    <<[k |-> storeName, v |-> ~Truthy(Get(f, storeName))]>>

\* { ...favorites, [storeName]: !isFavorite }
UpdatedFavorites(f, storeName) ==
    SpreadSet(f, storeName, ~Truthy(Get(f, storeName)))

\* mutant of StoredFavorites: the map of before the click is stored
StoredFavoritesStale(f, updatedFavorites) == JSONstringify(f)

\* the string the click handler stores
StoredFavorites(f, updatedFavorites) == JSONstringify(updatedFavorites)

SetSearch(text) ==
    /\ Mounted
    /\ text # search
    /\ search' = text
    /\ Render(text, dayFilter, openFilter, favorites, onlyFavs)
    /\ UNCHANGED <<variant, storeData, clock, dayFilter, openFilter, onlyFavs, sorting,
                   favorites, localStorage, swVars>>

SetDayFilter(d) ==
    /\ Mounted
    /\ d # dayFilter
    /\ dayFilter' = d
    /\ Render(search, d, openFilter, favorites, onlyFavs)
    /\ UNCHANGED <<variant, storeData, clock, search, openFilter, onlyFavs, sorting,
                   favorites, localStorage, swVars>>

SetOpenFilter(o) ==
    /\ Mounted
    /\ o # openFilter
    /\ openFilter' = o
    /\ Render(search, dayFilter, o, favorites, onlyFavs)
    /\ UNCHANGED <<variant, storeData, clock, search, dayFilter, onlyFavs, sorting,
                   favorites, localStorage, swVars>>

SetOnlyFavs(of) ==
    /\ Mounted
    /\ variant = 1
    /\ of # onlyFavs
    /\ onlyFavs' = of
    /\ Render(search, dayFilter, openFilter, favorites, of)
    /\ UNCHANGED <<variant, storeData, clock, search, dayFilter, openFilter, sorting,
                   favorites, localStorage, swVars>>

SetSorting(st) ==
    /\ Mounted
    /\ st # sorting
    /\ sorting' = st
    /\ Render(search, dayFilter, openFilter, favorites, onlyFavs)
    /\ UNCHANGED <<variant, storeData, clock, search, dayFilter, openFilter, onlyFavs,
                   favorites, localStorage, swVars>>

\* onClick of the cell of row i in column col
ClickCell(i, col) ==
    /\ Mounted
    /\ variant = 1
    /\ i \in 1..Len(Rows)
    /\ IF col # "favorites"
       THEN UNCHANGED vars
       ELSE LET storeName == Rows[i].name
                updatedFavorites == UpdatedFavorites(favorites, storeName)
            IN  /\ localStorage' =
                     setItem(localStorage, "favorites",
                             StoredFavorites(favorites, updatedFavorites))
                /\ favorites' = updatedFavorites
                /\ Render(search, dayFilter, openFilter, updatedFavorites, onlyFavs)
                /\ UNCHANGED <<variant, storeData, clock, search, dayFilter, openFilter,
                               onlyFavs, sorting, swVars>>

\* time passes: no handler runs
Tick ==
    /\ \E c \in [day : 1..MaxDay, minute : ClockMinutes] :
          /\ \/ c.day = clock.day /\ c.minute > clock.minute
             \/ c.day = clock.day + 1
          /\ clock' = c
    /\ UNCHANGED <<variant, storeData, search, dayFilter, openFilter, onlyFavs, sorting,
                   favorites, localStorage, filteredMemo, computedAt, columnsMemo, swVars>>

\* the page is loaded again: a new component is mounted
Reload ==
    LET f == IF variant = 1 THEN InitialFavorites(localStorage) ELSE <<>>
    IN  /\ search' = <<>>
        /\ dayFilter' = "Current Day"
        /\ openFilter' = "All"
        /\ onlyFavs' = "All"
        /\ sorting' = <<>>
        /\ favorites' = f
        /\ MountMemos(variant, storeData, f, clock)
        /\ UNCHANGED <<variant, storeData, clock, localStorage, swVars>>

(***************************************************************************)
(* The service worker                                                      *)
(***************************************************************************)
\* the list handed to cache.addAll
PrecacheUrls ==
    <<"/", "/index.html", "/static/js/bundle.js", "/static/js/0.chunk.js",
      "/static/js/main.chunk.js", "/manifest.json", "/favicon.ico", "/logo192.png",
      "/logo512.png">>

\* the requests the page makes
Requests == [url : {"/", "/favicon.ico", "/api/hours"}, method : {"GET", "POST"}]

Get_(url) == [url |-> url, method |-> "GET"]

NoResponse == [ok |-> FALSE, url |-> "", version |-> 0]

\* what the network answers to a request: the current version, or a network error
NetworkResponse(req, up) ==
    IF up THEN [ok |-> TRUE, url |-> req.url, version |-> server] ELSE NoResponse

\* mutant of cachesMatch: the cache is never consulted (network-first)
cachesMatchNothing(c, req) == [undef |-> TRUE, response |-> NoResponse]

\* caches.match(request): the cached response of a GET of the same url, or undefined
cachesMatch(c, req) ==
    IF req.method = "GET" /\ req.url \in DOMAIN c
    THEN [undef |-> FALSE, response |-> c[req.url]]
    ELSE [undef |-> TRUE, response |-> NoResponse]

\* response || fetch(event.request): [response, network], network = the request was sent
respondWith(c, req, up) ==
    LET response == cachesMatch(c, req)
    IN  IF ~response.undef
        THEN [response |-> response.response, network |-> FALSE]
        ELSE [response |-> NetworkResponse(req, up), network |-> TRUE]

\* the install event: cache.addAll fetches every url and stores all or nothing
Install(up) ==
    /\ worker = "parsed"
    /\ netLog' = netLog \o [i \in 1..Len(PrecacheUrls) |-> Get_(PrecacheUrls[i])]
    /\ IF up
       THEN /\ cache' = [u \in {PrecacheUrls[i] : i \in 1..Len(PrecacheUrls)} |->
                           [ok |-> TRUE, url |-> u, version |-> server]]
            /\ worker' = "activated"
       ELSE /\ cache' = cache
            /\ worker' = "redundant"
    /\ UNCHANGED <<uiVars, server, responded>>

\* the fetch event
FetchEvent(req, up) ==
    /\ worker = "activated"
    /\ Len(netLog) < Len(PrecacheUrls) + MaxNetLog
    /\ LET r == respondWith(cache, req, up)
       IN  /\ responded' = [request |-> req, response |-> r.response]
           /\ netLog' = IF r.network THEN Append(netLog, req) ELSE netLog
    /\ UNCHANGED <<uiVars, worker, cache, server>>

\* a new version of the site is deployed
Deploy ==
    /\ server < MaxVersion
    /\ server' = server + 1
    /\ UNCHANGED <<uiVars, worker, cache, netLog, responded>>

\* the browser evicts the origin's cache storage
Evict ==
    /\ worker = "activated"
    /\ cache # NoStorage
    /\ cache' = NoStorage
    /\ UNCHANGED <<uiVars, worker, server, netLog, responded>>

SwIdle ==
    /\ worker = "parsed"
    /\ cache = NoStorage
    /\ server = 0
    /\ netLog = <<>>
    /\ responded = [request |-> Get_(""), response |-> NoResponse]

Init ==
    /\ variant \in {1, 2}
    /\ storeData \in Fixtures
    /\ clock \in [day : {1}, minute : ClockMinutes]
    /\ search = <<>>
    /\ dayFilter = "Current Day"
    /\ openFilter = "All"
    /\ onlyFavs = "All"
    /\ sorting = <<>>
    /\ localStorage = NoStorage
    /\ favorites = <<>>
    /\ filteredMemo =
         [deps |-> FilteredDeps(variant, <<>>, "Current Day", "All", <<>>, "All"),
          value |-> filteredDataFn(variant, storeData, <<>>, "Current Day", "All",
                                   <<>>, "All", clock)]
    /\ computedAt = clock
    /\ columnsMemo =
         [deps |-> IF variant = 1 THEN << <<>> >> ELSE <<>>, value |-> "Current Day"]
    /\ SwIdle

Next ==
    \/ \E text \in SearchTexts : SetSearch(text)
    \/ \E d \in DayOptions : SetDayFilter(d)
    \/ \E o \in {"All", "Open Now"} : SetOpenFilter(o)
    \/ \E of \in {"All", "Favorites"} : SetOnlyFavs(of)
    \/ \E st \in SortingStates : SetSorting(st)
    \/ \E i \in 1..Len(storeData), col \in ColumnIds : ClickCell(i, col)
    \/ Tick
    \/ Reload

Spec == Init /\ [][Next]_vars

\* the service worker, beside a page that is left alone
InitSW ==
    /\ Init
    /\ variant = 2
    /\ storeData = FixtureFull
    /\ clock.minute = 9 * 60

NextSW ==
    \/ \E up \in BOOLEAN : Install(up)
    \/ \E req \in Requests, up \in BOOLEAN : FetchEvent(req, up)
    \/ Deploy
    \/ Evict

SpecSW == InitSW /\ [][NextSW]_vars

(***************************************************************************)
(* What the claims speak of, stated without the code's operators           *)
(***************************************************************************)
\* the time of day, in minutes, that an HHmm string names
MinuteOfDay(hhmm) == (10 * hhmm[1] + hhmm[2]) * 60 + 10 * hhmm[3] + hhmm[4]

Names(rows) == [i \in 1..Len(rows) |-> rows[i].name]

Sign(n) == IF n < 0 THEN -1 ELSE IF n = 0 THEN 0 ELSE 1

\* the name contains the search text, case-insensitively, or there is no search text
NameMatches(st) ==
    \/ search = <<>>
    \/ \E i \in 0..(Len(st.name) - Len(search)) :
          \A j \in 1..Len(search) : LowerChar(st.name[i + j]) = LowerChar(search[j])

\* the store is marked favorite, or not only the favorites are asked for
FavoriteMatches(st) ==
    \/ variant = 2
    \/ onlyFavs # "Favorites"
    \/ \E i \in 1..Len(favorites) : favorites[i].k = st.name /\ favorites[i].v

HasHours(st, day) == day \in DOMAIN st.hours

\* open <= t < close on that day
OpenHalfOpen(st, clk) ==
    LET day == EffectiveDay(dayFilter, clk)
    IN  /\ HasHours(st, day)
        /\ MinuteOfDay(st.hours[day].open) <= clk.minute
        /\ clk.minute < MinuteOfDay(st.hours[day].close)

\* open <= t <= close on that day
OpenClosed(st, clk) ==
    LET day == EffectiveDay(dayFilter, clk)
    IN  /\ HasHours(st, day)
        /\ MinuteOfDay(st.hours[day].open) <= clk.minute
        /\ clk.minute <= MinuteOfDay(st.hours[day].close)

Displayed(st) == \E r \in 1..Len(Rows) : Rows[r].name = st.name

SatisfiesEveryActivePredicate(st) ==
    /\ NameMatches(st)
    /\ FavoriteMatches(st)
    /\ openFilter = "Open Now" => OpenHalfOpen(st, clock)

AcceptedAtLastRecomputation(st) ==
    /\ NameMatches(st)
    /\ FavoriteMatches(st)
    /\ OpenClosed(st, computedAt)

(***************************************************************************)
(* C1                                                                      *)
(***************************************************************************)
\* C1: with "Open Now", at the moment the filter is computed, a store that has
\* hours on the effective day and passes the other filters is kept if and only if
\* open <= t < close; a store whose closing time is the current minute is excluded.
C1_OpenNowKeepsHalfOpenWindow ==
    (openFilter = "Open Now" /\ computedAt = clock /\ Mounted) =>
        \A i \in 1..Len(storeData) :
            LET st == storeData[i]
            IN  (HasHours(st, EffectiveDay(dayFilter, clock))
                 /\ NameMatches(st) /\ FavoriteMatches(st))
                => (Displayed(st) <=> OpenHalfOpen(st, clock))

(***************************************************************************)
(* C2                                                                      *)
(***************************************************************************)
\* C2: whenever the list has just been computed, it holds exactly the stores of the
\* fixture that satisfy every active predicate (name, favorite, open), once each and
\* in fixture order.
C2_ListIsExactlyTheMatchingStores ==
    computedAt = clock =>
        /\ Mounted
        /\ Names(Rows) = Names(SelectSeq(storeData, SatisfiesEveryActivePredicate))

(***************************************************************************)
(* C3                                                                      *)
(***************************************************************************)
\* C3: in the component with favorites, once a favorite cell has been clicked the
\* key "favorites" holds the JSON of the in-memory map, a component mounted now
\* would start with exactly that map, and a reload keeps every store that was
\* marked favorite marked.
C3_FavoritesPersisted ==
    /\ [](variant = 1 =>
            /\ InitialFavorites(localStorage) = favorites
            /\ favorites # <<>> => "favorites" \in DOMAIN localStorage
            /\ "favorites" \in DOMAIN localStorage =>
                   localStorage["favorites"] = JSONstringify(favorites))
    /\ [][(variant = 1 /\ Reload) =>
            \A n \in StoreNames :
                Truthy(Get(favorites, n)) => Truthy(Get(favorites', n))]_vars

\* a store marked, another marked and unmarked again, both in storage
C3_Witness ==
    /\ variant = 1
    /\ "favorites" \in DOMAIN localStorage
    /\ Len(favorites) = 2
    /\ favorites[1].v
    /\ ~favorites[2].v
    /\ Len(localStorage["favorites"]) > 2

(***************************************************************************)
(* C4                                                                      *)
(***************************************************************************)
\* C4: in every reachable state the filtered list is the filter applied to the
\* current search text, day selection, open filter, favorites-only filter and
\* favorites map (read at the clock of its computation), never to an earlier value.
C4_ListComputedFromCurrentInputs ==
    filteredMemo.value =
        filteredDataFn(variant, storeData, search, dayFilter, openFilter, favorites,
                       onlyFavs, computedAt)

\* every filter is active and they leave one row
C4_Witness ==
    /\ variant = 1
    /\ search # <<>>
    /\ dayFilter # "Current Day"
    /\ openFilter = "Open Now"
    /\ onlyFavs = "Favorites"
    /\ Mounted
    /\ Len(Rows) = 1
    /\ Len(favorites) = 2

(***************************************************************************)
(* C5                                                                      *)
(***************************************************************************)
\* C5: every fetch event is answered cache-first: a request the cache matches gets
\* the cached response and nothing is sent to the network; any other request is
\* sent to the network and gets the network's answer.
C5_CacheFirst ==
    [][\A req \in Requests, up \in BOOLEAN :
          FetchEvent(req, up) =>
              IF req.method = "GET" /\ req.url \in DOMAIN cache
              THEN /\ responded' = [request |-> req, response |-> cache[req.url]]
                   /\ netLog' = netLog
              ELSE /\ responded' = [request |-> req, response |-> NetworkResponse(req, up)]
                   /\ netLog' = Append(netLog, req)]_vars

\* a cached response was served although the site has a newer version, and no
\* request but those of the install went to the network
C5_Witness ==
    /\ worker = "activated"
    /\ responded.response.ok
    /\ responded.response.version < server
    /\ Len(netLog) = Len(PrecacheUrls)

(***************************************************************************)
(* C6                                                                      *)
(***************************************************************************)
\* C6: the Hours cell of every displayed row that has hours on the effective day
\* shows the open and close times of that day.
C6_HoursCellShowsSelectedDay ==
    Mounted =>
        \A r \in 1..Len(Rows) :
            LET day == EffectiveDay(dayFilter, clock)
            IN  HasHours(Rows[r], day) =>
                    HoursCell(Rows[r], columnsMemo.value, clock) =
                        Rows[r].hours[day].open \o <<" - ">> \o Rows[r].hours[day].close

(***************************************************************************)
(* C7                                                                      *)
(***************************************************************************)
\* C7: for any two displayed rows with hours on the effective day, the Hours
\* comparator has the sign of the difference of their closing times on that day.
C7_ComparatorOrdersByClosingTime ==
    Mounted =>
        \A a \in 1..Len(Rows), b \in 1..Len(Rows) :
            LET day == EffectiveDay(dayFilter, clock)
                c == sortingFn(Rows[a], Rows[b], columnsMemo.value, clock)
            IN  (HasHours(Rows[a], day) /\ HasHours(Rows[b], day)) =>
                    /\ ~c.thrown
                    /\ Sign(c.n) = Sign(MinuteOfDay(Rows[a].hours[day].close)
                                        - MinuteOfDay(Rows[b].hours[day].close))

(***************************************************************************)
(* C8                                                                      *)
(***************************************************************************)
\* C8: with "Open Now", the computation of the filter raises no error, and a store
\* without hours on the effective day is not in the list.
C8_MissingHoursExcludedWithoutError ==
    (openFilter = "Open Now" /\ computedAt = clock) =>
        /\ Mounted
        /\ \A i \in 1..Len(storeData) :
              ~HasHours(storeData[i], EffectiveDay(dayFilter, clock))
                  => ~Displayed(storeData[i])

(***************************************************************************)
(* C9                                                                      *)
(***************************************************************************)
\* C9: a click on the favorites cell of a row flips the mark of that row's store and
\* leaves every other store's mark, the search text, the day selection, the open
\* filter, the favorites-only filter and the sort state as they were; a click on a
\* cell of another column changes neither the favorites map nor the storage.
C9_FavoriteClickFrame ==
    [][\A i \in 1..Len(storeData), col \in ColumnIds :
          ClickCell(i, col) =>
              IF col = "favorites"
              THEN /\ Truthy(Get(favorites', Rows[i].name))
                        = ~Truthy(Get(favorites, Rows[i].name))
                   /\ \A m \in StoreNames \ {Rows[i].name} :
                          Get(favorites', m) = Get(favorites, m)
                   /\ search' = search
                   /\ dayFilter' = dayFilter
                   /\ openFilter' = openFilter
                   /\ onlyFavs' = onlyFavs
                   /\ sorting' = sorting
              ELSE /\ favorites' = favorites
                   /\ localStorage' = localStorage]_vars

\* both stores have been clicked, one of them twice, under a search text and a sort
C9_Witness ==
    /\ variant = 1
    /\ search # <<>>
    /\ sorting # <<>>
    /\ openFilter = "Open Now"
    /\ Len(favorites) = 2
    /\ ~favorites[1].v
    /\ favorites[2].v

(***************************************************************************)
(* C10                                                                     *)
(***************************************************************************)
\* C10 as written: while "Open Now" is selected the displayed list is at every
\* moment the list of the stores open at the current clock time.
C10_ListFollowsTheClock ==
    (openFilter = "Open Now" /\ Mounted) =>
        filteredMemo.value =
            filteredDataFn(variant, storeData, search, dayFilter, openFilter, favorites,
                           onlyFavs, clock)

\* C10 as amended: while "Open Now" is selected the displayed list holds, in fixture
\* order, the stores that pass the other filters and whose hours open..close of the
\* effective day contained the clock time of the last recomputation of the filter.
C10_ListIsAsOfLastRecomputation ==
    (openFilter = "Open Now" /\ Mounted) =>
        Names(Rows) = Names(SelectSeq(storeData, AcceptedAtLastRecomputation))

\* the clock has moved on since the list was computed and the list shows it:
\* a fresh computation would give another list
C10_Witness ==
    /\ openFilter = "Open Now"
    /\ Mounted
    /\ computedAt # clock
    /\ filteredMemo.value #
           filteredDataFn(variant, storeData, search, dayFilter, openFilter, favorites,
                          onlyFavs, clock)

====
